---- MODULE Spec2Model ----
(***************************************************************************)
(* Model of the bee-brain repository: the Slack bot service                *)
(* (beebrain_app.py), the thread utilities (slack_utilities.py) and the    *)
(* LLM chat client with its interactive loop (llmInteract.py).             *)
(*                                                                         *)
(* One behaviour is one run of one entry point: `program` is fixed by Init *)
(* to either the bot service or the interactive chat loop.  Every call to  *)
(* an external service (Slack Web API, the LLM endpoint) is one step; its  *)
(* outcome is an input chosen with \E.  `calls` records the external calls *)
(* of the current request/round in the order the code makes them.          *)
(***************************************************************************)
EXTENDS Naturals, Sequences, FiniteSets, TLC

VARIABLES
    program,      \* which entry point runs: "beebrain_app" or "llmInteract"
    pc,           \* position of the single (synchronous) thread of control
    route,        \* bot: route of the request being / last handled
    body,         \* bot: JSON body of that request
    handlerName,  \* bot: listener the event router dispatched to
    httpResponse, \* bot: response of that request
    calls,        \* external calls made during the current request / round
    messages,     \* the caller's list object handed to chat()
    output,       \* chat(): local `output`
    message,      \* chat(): local `message` (Unbound until first assigned)
    frames,       \* chat(): the frames read from r.iter_lines() so far
    chatResult,   \* value returned by the last chat() call
    chatError,    \* exception raised by the last chat() call ("" if none)
    rounds        \* interactive loop: completed rounds

vars == <<program, pc, route, body, handlerName, httpResponse, calls, messages,
          output, message, frames, chatResult, chatError, rounds>>

chatVars == <<output, message, frames, chatResult, chatError>>
reqVars  == <<route, body, handlerName, httpResponse>>

----------------------------------------------------------------------------
(* Bounds of the model *)

MaxFrames == 2    \* done:false frames read by one chat() call
MaxThread == 2    \* messages returned by one conversations_replies call
MaxRounds == 2    \* rounds of the interactive loop with non-empty input

----------------------------------------------------------------------------
(* Python values.  Every value has the same record shape so that values of *)
(* different Python types can sit in one list and be compared.             *)

Msg(role, content) == [kind |-> "dict", role |-> role, content |-> content]
Str(s)             == [kind |-> "str",  role |-> "",   content |-> s]
None               == [kind |-> "None", role |-> "",   content |-> ""]
Unbound            == [kind |-> "unbound", role |-> "", content |-> ""]

SystemPrompt == "Messages coming to you will have the format: <user id>:<message>. Your name is BeeBrain and you are slack chat bot. Keep answers as short as possible, friendly. You can reply without saying your name."

SystemMessage == Msg("system", SystemPrompt)

Roles == {"system", "user", "assistant"}

----------------------------------------------------------------------------
(* Inputs *)

Channels   == {"C1", "C2"}
Timestamps == {"1.1"}
ThreadTss  == {"1.0"}
Challenges == {"", "abc123"}
Users      == {"U1"}
Texts      == {"hi", "yo"}
Contents   == {"", "Hel", "lo"}
Errors     == {"model not found"}
Inputs     == {"", "hi"}
HttpStatus == {200, 500}
SlackOutcomes == {"ok", "SlackApiError"}

NoEvent == [type |-> "none", channel |-> "", ts |-> "", hasThread |-> FALSE, thread_ts |-> ""]

Events ==
    { [type |-> t, channel |-> c, ts |-> s, hasThread |-> FALSE, thread_ts |-> ""] :
        t \in {"app_mention", "message"}, c \in Channels, s \in Timestamps }
    \cup
    { [type |-> t, channel |-> c, ts |-> s, hasThread |-> TRUE, thread_ts |-> p] :
        t \in {"app_mention", "message"}, c \in Channels, s \in Timestamps, p \in ThreadTss }

EmptyBody == [hasChallenge |-> FALSE, challenge |-> "", event |-> NoEvent]

Bodies ==
    { [hasChallenge |-> FALSE, challenge |-> "", event |-> e] : e \in Events \cup {NoEvent} }
    \cup
    { [hasChallenge |-> TRUE, challenge |-> c, event |-> e] :
        c \in Challenges, e \in Events \cup {NoEvent} }

Item(user, text) == [user |-> user, text |-> text]
Items == { Item(u, t) : u \in Users, t \in Texts }

RECURSIVE SeqsUpTo(_, _)
SeqsUpTo(S, n) ==
    IF n = 0 THEN { <<>> }
    ELSE LET shorter == SeqsUpTo(S, n - 1)
         IN  shorter \cup { Append(s, x) : s \in shorter, x \in S }

Frame(hasError, error, done, content) ==
    [hasError |-> hasError, error |-> error, done |-> done, content |-> content]

Frames ==
    { Frame(FALSE, "", d, c) : d \in BOOLEAN, c \in Contents }
    \cup { Frame(TRUE, e, d, "") : e \in Errors, d \in BOOLEAN }

----------------------------------------------------------------------------
(* Records of external calls and of HTTP responses *)

\* `outcome` is what the called service answered: "ok", "SlackApiError" (a
\* platform-reported failure) or "HTTPError" (a non-success status).
Call(op, channel, ts, text, msgs, outcome) ==
    [op |-> op, channel |-> channel, ts |-> ts, text |-> text, msgs |-> msgs,
     outcome |-> outcome]

Response(status, kind, value) == [status |-> status, kind |-> kind, value |-> value]

NoResponse == Response(0, "none", "")

----------------------------------------------------------------------------
(* slack_utilities.fetch_thread_message: the list comprehension over the   *)
(* page of replies, or [] when conversations_replies raises SlackApiError  *)
(* (a platform-reported failure always carries a non-empty "error" field,  *)
(* so the assert in the except branch passes).                             *)

RECURSIVE messageList(_)
messageList(items) ==
    IF items = <<>> THEN <<>>
    ELSE <<Msg("user", Head(items).user \o ": " \o Head(items).text)>>
         \o messageList(Tail(items))

\* Variant: the except branch re-raises instead of returning [].
fetch_thread_message_reraise(outcome, items) ==
    IF outcome = "SlackApiError"
    THEN [raised |-> TRUE, value |-> <<>>]
    ELSE [raised |-> FALSE, value |-> messageList(items)]

fetch_thread_message(outcome, items) ==
    IF outcome = "SlackApiError"
    THEN [raised |-> FALSE, value |-> <<>>]
    ELSE [raised |-> FALSE, value |-> messageList(items)]

----------------------------------------------------------------------------
(* llmInteract.chat *)

Model == "llama3.1:latest"

\* Variant: the system message is appended instead of inserted at index 0.
InsertSystem_append(msgs) == Append(msgs, SystemMessage)

\* messages.insert(0, {...}): the caller's list object itself is changed.
InsertSystem(msgs) == <<SystemMessage>> \o msgs

\* Variant: the loop body without the `if "error" in body` check.
ChatFrame_noErrorCheck(frame, out, msg) ==
    LET isFalse == frame.done = FALSE
        out1 == IF isFalse THEN out \o frame.content ELSE out
        msg1 == IF isFalse THEN Msg("assistant", frame.content) ELSE msg
    IN  IF frame.done
        THEN IF msg1 = Unbound
             THEN [status |-> "raised", exc |-> "UnboundLocalError",
                   output |-> out1, message |-> msg1, result |-> None]
             ELSE [status |-> "returned", exc |-> "", output |-> out1,
                   message |-> [msg1 EXCEPT !.content = out1],
                   result |-> Str(out1)]
        ELSE [status |-> "running", exc |-> "", output |-> out1,
              message |-> msg1, result |-> None]

\* One iteration of `for line in r.iter_lines()` on the frame `frame`, with
\* the locals `output` and `message` as they are before it.  Frames have the
\* endpoint's shape {message: {role, content}, done, error?}.  `message` is
\* bound only by a done:false frame; `message["content"] = output` on an
\* unbound local raises UnboundLocalError.  The value returned is the str
\* message["content"].
ChatFrame(frame, out, msg) ==
    IF frame.hasError
    THEN [status |-> "raised", exc |-> frame.error, output |-> out,
          message |-> msg, result |-> None]
    ELSE LET isFalse == frame.done = FALSE
             out1 == IF isFalse THEN out \o frame.content ELSE out
             msg1 == IF isFalse THEN Msg("assistant", frame.content) ELSE msg
         IN  IF frame.done
             THEN IF msg1 = Unbound
                  THEN [status |-> "raised", exc |-> "UnboundLocalError",
                        output |-> out1, message |-> msg1, result |-> None]
                  ELSE [status |-> "returned", exc |-> "", output |-> out1,
                        message |-> [msg1 EXCEPT !.content = out1],
                        result |-> Str(out1)]
             ELSE [status |-> "running", exc |-> "", output |-> out1,
                   message |-> msg1, result |-> None]

\* chat(), up to and including r.raise_for_status().
ChatRequest ==
    /\ pc = "chat_request"
    /\ messages' = InsertSystem(messages)
    /\ \E status \in HttpStatus :
          IF status = 200
          THEN /\ calls' = Append(calls, Call("llm_post", "", "", Str(Model), messages', "ok"))
               /\ pc' = "chat_read"
               /\ chatError' = ""
          ELSE /\ calls' = Append(calls, Call("llm_post", "", "", Str(Model), messages', "HTTPError"))
               /\ pc' = "chat_raised"
               /\ chatError' = "HTTPError"
    /\ output' = ""
    /\ message' = Unbound
    /\ frames' = <<>>
    /\ chatResult' = None
    /\ UNCHANGED <<program, rounds>>
    /\ UNCHANGED reqVars

\* chat(), one frame of the streamed response.
ChatReadFrame ==
    /\ pc = "chat_read"
    /\ \E frame \in Frames :
          LET r == ChatFrame(frame, output, message)
          IN  /\ (r.status = "running") => (Len(frames) < MaxFrames)
              /\ frames' = Append(frames, frame)
              /\ output' = r.output
              /\ message' = r.message
              /\ chatResult' = r.result
              /\ chatError' = r.exc
              /\ pc' = IF r.status = "running" THEN "chat_read"
                       ELSE IF r.status = "returned" THEN "chat_returned"
                       ELSE "chat_raised"
    /\ UNCHANGED <<program, calls, messages, rounds>>
    /\ UNCHANGED reqVars

\* chat(), the response body ends with no done:true frame: the loop falls
\* through and the function returns None.
ChatStreamEnd ==
    /\ pc = "chat_read"
    /\ pc' = "chat_returned"
    /\ chatResult' = None
    /\ UNCHANGED <<program, calls, messages, output, message, frames, chatError, rounds>>
    /\ UNCHANGED reqVars

----------------------------------------------------------------------------
(* beebrain_app: routes and the event router *)

\* `if data.get("challenge", False)`: the truth value of the field.
HasChallenge(data) == data.hasChallenge /\ data.challenge # ""

\* handler.handle(request): the listener registered for the event's type.
Router(data) ==
    IF data.event.type = "app_mention" THEN "handle_mentions"
    ELSE IF data.event.type = "message" THEN "handle_messages"
    ELSE "none"

\* Variant: the test looks at a key every event has (`'ts' in event`).
InThread_wrongKey(event) == TRUE

\* `if 'thread_ts' in event`
InThread(event) == event.hasThread

\* handler.handle(request) up to the first external call of the listener.
Handle(data) ==
    LET h == Router(data)
    IN  /\ handlerName' = h
        /\ IF h = "handle_mentions"
           THEN /\ pc' = "mention_add"
                /\ httpResponse' = NoResponse
           ELSE IF h = "handle_messages" /\ InThread(data.event)
           THEN /\ pc' = "msg_fetch"
                /\ httpResponse' = NoResponse
           ELSE /\ pc' = "idle"
                /\ httpResponse' = Response(200, "handled", "")

StartRequest(r, data) ==
    /\ route' = r
    /\ body' = data
    /\ calls' = <<>>
    /\ messages' = <<>>
    /\ output' = ""
    /\ message' = Unbound
    /\ frames' = <<>>
    /\ chatResult' = None
    /\ chatError' = ""
    /\ UNCHANGED <<program, rounds>>

\* POST /
index ==
    /\ program = "beebrain_app"
    /\ pc = "idle"
    /\ \E data \in Bodies :
          /\ StartRequest("POST /", data)
          /\ IF HasChallenge(data)
             THEN /\ httpResponse' = Response(200, "challenge", data.challenge)
                  /\ handlerName' = "none"
                  /\ pc' = "idle"
             ELSE Handle(data)

\* POST /events
slack_events ==
    /\ program = "beebrain_app"
    /\ pc = "idle"
    /\ \E data \in Bodies :
          /\ StartRequest("POST /events", data)
          /\ IF data = EmptyBody
             THEN /\ httpResponse' = Response(400, "error", "No data received")
                  /\ handlerName' = "none"
                  /\ pc' = "idle"
             ELSE Handle(data)

\* GET /
slack ==
    /\ program = "beebrain_app"
    /\ pc = "idle"
    /\ StartRequest("GET /", EmptyBody)
    /\ httpResponse' = Response(200, "message", "Hello World!")
    /\ handlerName' = "none"
    /\ pc' = "idle"

\* An exception leaves the listener: the request ends with a server error.
Fail500 ==
    /\ pc' = "idle"
    /\ httpResponse' = Response(500, "error", "")

Done200 ==
    /\ pc' = "idle"
    /\ httpResponse' = Response(200, "handled", "")

----------------------------------------------------------------------------
(* beebrain_app.handle_mentions *)

Emoji == "eyes"

\* Variant: the reply is the stripped text (body.get("text", "") is "").
MentionResponse_text == Str("")

MentionResponse == Str("Yoo")

\* add_reaction(channel, timestamp, emoji): SlackApiError is swallowed.
MentionsAddReaction ==
    /\ pc = "mention_add"
    /\ \E outcome \in SlackOutcomes :
          calls' = Append(calls, Call("reactions_add", body.event.channel,
                                      body.event.ts, Str(Emoji), <<>>, outcome))
    /\ pc' = "mention_post"
    /\ UNCHANGED <<program, route, body, handlerName, httpResponse, messages, rounds>>
    /\ UNCHANGED chatVars

\* text.replace(mention, "").strip() computes a local that is never read;
\* then slack_client.chat_postMessage(channel, text="Yoo", thread_ts=None):
\* not guarded, a SlackApiError leaves the listener.
MentionsPost ==
    /\ pc = "mention_post"
    /\ \E outcome \in SlackOutcomes :
          /\ calls' = Append(calls, Call("chat_postMessage", body.event.channel,
                                         "None", MentionResponse, <<>>, outcome))
          /\ IF outcome = "ok"
             THEN /\ pc' = "mention_remove"
                  /\ UNCHANGED httpResponse
             ELSE Fail500
    /\ UNCHANGED <<program, route, body, handlerName, messages, rounds>>
    /\ UNCHANGED chatVars

\* remove_reaction(channel, timestamp, emoji): SlackApiError is swallowed.
MentionsRemoveReaction ==
    /\ pc = "mention_remove"
    /\ \E outcome \in SlackOutcomes :
          calls' = Append(calls, Call("reactions_remove", body.event.channel,
                                      body.event.ts, Str(Emoji), <<>>, outcome))
    /\ Done200
    /\ UNCHANGED <<program, route, body, handlerName, messages, rounds>>
    /\ UNCHANGED chatVars

----------------------------------------------------------------------------
(* beebrain_app.handle_messages, the branch taken for a threaded event *)

\* history = utils.fetch_thread_message(slack_client, channel, parent_ts)
MessagesFetch ==
    /\ pc = "msg_fetch"
    /\ \E outcome \in SlackOutcomes, items \in SeqsUpTo(Items, MaxThread) :
          LET r == fetch_thread_message(outcome, items)
          IN  /\ calls' = Append(calls, Call("conversations_replies", body.event.channel,
                                             body.event.thread_ts, None, <<>>, outcome))
              /\ IF r.raised
                 THEN /\ Fail500
                      /\ UNCHANGED messages
                 ELSE /\ messages' = r.value
                      /\ pc' = "chat_request"
                      /\ UNCHANGED httpResponse
    /\ UNCHANGED <<program, route, body, handlerName, rounds>>
    /\ UNCHANGED chatVars

\* Variant: the exception of chat(history) is swallowed and the listener
\* goes on to post.
MessagesChatRaised_swallow ==
    /\ program = "beebrain_app"
    /\ pc = "chat_raised"
    /\ pc' = "chat_returned"
    /\ UNCHANGED <<program, route, body, handlerName, httpResponse, calls, messages, rounds>>
    /\ UNCHANGED chatVars

\* chat(history) raised: handle_messages has no try, the exception leaves it.
MessagesChatRaised ==
    /\ program = "beebrain_app"
    /\ pc = "chat_raised"
    /\ Fail500
    /\ UNCHANGED <<program, route, body, handlerName, calls, messages, rounds>>
    /\ UNCHANGED chatVars

\* slack_client.chat_postMessage(channel, text=response, thread_ts=parent_ts)
MessagesPost ==
    /\ program = "beebrain_app"
    /\ pc = "chat_returned"
    /\ \E outcome \in SlackOutcomes :
          /\ calls' = Append(calls, Call("chat_postMessage", body.event.channel,
                                         body.event.thread_ts, chatResult, <<>>, outcome))
          /\ IF outcome = "ok"
             THEN /\ pc' = "msg_remove"
                  /\ UNCHANGED httpResponse
             ELSE Fail500
    /\ UNCHANGED <<program, route, body, handlerName, messages, rounds>>
    /\ UNCHANGED chatVars

\* remove_reaction(channel, timestamp, emoji): this listener never calls
\* add_reaction.
MessagesRemoveReaction ==
    /\ pc = "msg_remove"
    /\ \E outcome \in SlackOutcomes :
          calls' = Append(calls, Call("reactions_remove", body.event.channel,
                                      body.event.ts, Str(Emoji), <<>>, outcome))
    /\ Done200
    /\ UNCHANGED <<program, route, body, handlerName, messages, rounds>>
    /\ UNCHANGED chatVars

----------------------------------------------------------------------------
(* llmInteract.main *)

\* user_input = input(...); exit() on empty input, else append the user
\* message and call chat(messages).
MainInput ==
    /\ program = "llmInteract"
    /\ pc = "main_input"
    /\ \E user_input \in Inputs :
          /\ (user_input # "") => (rounds < MaxRounds)
          /\ IF user_input = ""
             THEN /\ pc' = "main_exit"
                  /\ UNCHANGED messages
             ELSE /\ pc' = "chat_request"
                  /\ messages' = Append(messages, Msg("user", user_input))
    /\ calls' = <<>>
    /\ UNCHANGED <<program, rounds>>
    /\ UNCHANGED reqVars
    /\ UNCHANGED chatVars

\* message = chat(messages); messages.append(message)
MainAppendReply ==
    /\ program = "llmInteract"
    /\ pc = "chat_returned"
    /\ messages' = Append(messages, chatResult)
    /\ rounds' = rounds + 1
    /\ pc' = "main_input"
    /\ UNCHANGED <<program, calls>>
    /\ UNCHANGED reqVars
    /\ UNCHANGED chatVars

\* chat(messages) raised: nothing catches it, the process ends.
MainChatRaised ==
    /\ program = "llmInteract"
    /\ pc = "chat_raised"
    /\ pc' = "main_crashed"
    /\ UNCHANGED <<program, calls, messages, rounds>>
    /\ UNCHANGED reqVars
    /\ UNCHANGED chatVars

----------------------------------------------------------------------------

Init ==
    /\ program \in {"beebrain_app", "llmInteract"}
    /\ pc = IF program = "beebrain_app" THEN "idle" ELSE "main_input"
    /\ route = "none"
    /\ body = EmptyBody
    /\ handlerName = "none"
    /\ httpResponse = NoResponse
    /\ calls = <<>>
    /\ messages = <<>>
    /\ output = ""
    /\ message = Unbound
    /\ frames = <<>>
    /\ chatResult = None
    /\ chatError = ""
    /\ rounds = 0

Next ==
    \/ index
    \/ slack_events
    \/ slack
    \/ MentionsAddReaction
    \/ MentionsPost
    \/ MentionsRemoveReaction
    \/ MessagesFetch
    \/ ChatRequest
    \/ ChatReadFrame
    \/ ChatStreamEnd
    \/ MessagesChatRaised
    \/ MessagesPost
    \/ MessagesRemoveReaction
    \/ MainInput
    \/ MainAppendReply
    \/ MainChatRaised

Spec == Init /\ [][Next]_vars

----------------------------------------------------------------------------
(* Vocabulary of the properties *)

OpsOf(seq) == [i \in 1..Len(seq) |-> seq[i].op]

IsRoutingCall(c) == c.op \in {"conversations_replies", "llm_post", "chat_postMessage"}

RoutingCalls == SelectSeq(calls, IsRoutingCall)

Count(op) == Cardinality({ i \in 1..Len(calls) : calls[i].op = op })

IsPrefix(a, b) == Len(a) <= Len(b) /\ \A i \in 1..Len(a) : a[i] = b[i]

RECURSIVE ConcatFragments(_)
ConcatFragments(fs) ==
    IF fs = <<>> THEN ""
    ELSE (IF ~Head(fs).hasError /\ Head(fs).done = FALSE THEN Head(fs).content ELSE "")
         \o ConcatFragments(Tail(fs))

IsChatMessage(m) == m.kind = "dict" /\ m.role \in Roles

MessagesCycle == program = "beebrain_app" /\ handlerName = "handle_messages"
MentionsCycle == program = "beebrain_app" /\ handlerName = "handle_mentions"

FetchChatPost == <<"conversations_replies", "llm_post", "chat_postMessage">>

----------------------------------------------------------------------------
\* C1 (as stated): a message event without thread_ts causes no thread fetch,
\* no chat call and no post; a message event with thread_ts causes exactly
\* one fetch, then exactly one chat call, then exactly one post into the
\* event's thread.
C1_RoutingAlwaysPosts ==
    MessagesCycle =>
        IF ~body.event.hasThread
        THEN RoutingCalls = <<>>
        ELSE /\ IsPrefix(OpsOf(RoutingCalls), FetchChatPost)
             /\ (pc = "idle") =>
                   /\ OpsOf(RoutingCalls) = FetchChatPost
                   /\ RoutingCalls[3].ts = body.event.thread_ts
                   /\ RoutingCalls[3].channel = body.event.channel

\* C1 (amended): a message event without thread_ts causes no thread fetch,
\* no chat call and no post; a message event with thread_ts causes exactly
\* one fetch, then exactly one chat call; when that chat call returns it is
\* followed by exactly one post into the event's thread, and when it raises
\* no post is made.
C1_Routing ==
    MessagesCycle =>
        IF ~body.event.hasThread
        THEN RoutingCalls = <<>>
        ELSE /\ IsPrefix(OpsOf(RoutingCalls), FetchChatPost)
             /\ (pc = "idle") =>
                   IF chatError = ""
                   THEN /\ OpsOf(RoutingCalls) = FetchChatPost
                        /\ RoutingCalls[3].ts = body.event.thread_ts
                        /\ RoutingCalls[3].channel = body.event.channel
                   ELSE OpsOf(RoutingCalls) = <<"conversations_replies", "llm_post">>

C1_Witness ==
    /\ MessagesCycle
    /\ body.event.hasThread
    /\ pc = "idle"
    /\ httpResponse.status = 200
    /\ OpsOf(RoutingCalls) = FetchChatPost
    /\ RoutingCalls[3].text = Str("Hello")

----------------------------------------------------------------------------
\* C2: handling an app_mention never calls the LLM or the thread fetch; it
\* makes exactly one post, unthreaded, with the text "Yoo", after adding the
\* "eyes" reaction to the event's channel+ts and before removing it, also
\* when reactions_add reports a platform failure.
C2_MentionHandling ==
    MentionsCycle =>
        /\ IsPrefix(OpsOf(calls), <<"reactions_add", "chat_postMessage", "reactions_remove">>)
        /\ \A i \in 1..Len(calls) :
              /\ calls[i].channel = body.event.channel
              /\ (calls[i].op = "chat_postMessage") =>
                    (calls[i].text = Str("Yoo") /\ calls[i].ts = "None")
              /\ (calls[i].op \in {"reactions_add", "reactions_remove"}) =>
                    (calls[i].text = Str("eyes") /\ calls[i].ts = body.event.ts)
        /\ (pc \in {"mention_remove", "idle"}) => (Count("chat_postMessage") = 1)

C2_Witness ==
    /\ MentionsCycle
    /\ pc = "idle"
    /\ httpResponse.status = 200
    /\ Len(calls) = 3
    /\ calls[1].outcome = "SlackApiError"
    /\ calls[2].outcome = "ok"

----------------------------------------------------------------------------
\* C3: when the frames read are error-free and the last one has done = true
\* (also when it is the very first frame), chat returns at that frame, and
\* the content returned is the concatenation, in arrival order, of the
\* contents of the preceding done = false frames.
C3_ChatAccumulation ==
    ( /\ frames # <<>>
      /\ \A i \in 1..Len(frames) : ~frames[i].hasError
      /\ frames[Len(frames)].done )
    => /\ chatError = ""
       /\ chatResult.kind # "None"
       /\ chatResult.content = ConcatFragments(SubSeq(frames, 1, Len(frames) - 1))

----------------------------------------------------------------------------
\* C4: a frame with an error field makes chat fail at that frame with the
\* error text; no later frame is read, the output buffer stays what the
\* earlier fragments made it, no value is returned and nothing is posted.
C4_ChatErrorPropagation ==
    \A i \in 1..Len(frames) :
        frames[i].hasError =>
            /\ i = Len(frames)
            /\ pc \in {"chat_raised", "idle", "main_crashed"}
            /\ chatError = frames[i].error
            /\ chatResult = None
            /\ output = ConcatFragments(SubSeq(frames, 1, i - 1))
            /\ Count("chat_postMessage") = 0

C4_Witness ==
    /\ Len(frames) = 3
    /\ frames[3].hasError
    /\ output = "Hello"
    /\ pc = "chat_raised"

----------------------------------------------------------------------------
\* C5: one call of chat with history h sends the request with the messages
\* <<system message>> \o h, and the caller's list is that same sequence from
\* then on, through the reading of the stream and through a failure.
C5_SystemPromptInjection ==
    [][ /\ (pc = "chat_request") =>
              /\ messages' = <<SystemMessage>> \o messages
              /\ calls'[Len(calls')].op = "llm_post"
              /\ calls'[Len(calls')].msgs = <<SystemMessage>> \o messages
        /\ (pc \in {"chat_read", "chat_raised"}) => (messages' = messages)
      ]_vars

C5_Witness ==
    /\ pc = "chat_raised"
    /\ chatError = "HTTPError"
    /\ Len(messages) = 3
    /\ messages[1] = SystemMessage
    /\ messages[2] = Msg("user", "U1: hi")
    /\ calls[Len(calls)].msgs = messages

----------------------------------------------------------------------------
\* C6: a POST to the root route whose body has a challenge field, whatever
\* its value, is answered with exactly that challenge and is not handed to
\* the event router: no listener runs and no external call is made.
C6_ChallengeHandshake ==
    (program = "beebrain_app" /\ route = "POST /" /\ body.hasChallenge) =>
        /\ httpResponse = Response(200, "challenge", body.challenge)
        /\ handlerName = "none"
        /\ calls = <<>>

----------------------------------------------------------------------------
----------------------------------------------------------------------------
\* C8: within one event-handling cycle the calls come in the order
\* reaction-add, LLM invocation, reply-post, reaction-remove, and every
\* removal of "eyes" from a channel+ts follows, in the same cycle, an add of
\* "eyes" to that channel+ts and a completed post.
StepRank(op) ==
    IF op = "reactions_add" THEN 1
    ELSE IF op \in {"conversations_replies", "llm_post"} THEN 2
    ELSE IF op = "chat_postMessage" THEN 3
    ELSE 4

C8_ReactionLifecycle ==
    (program = "beebrain_app") =>
        /\ \A i, j \in 1..Len(calls) :
              (i < j) => (StepRank(calls[i].op) <= StepRank(calls[j].op))
        /\ \A i \in 1..Len(calls) :
              (calls[i].op = "reactions_remove") =>
                  /\ \E j \in 1..(i - 1) :
                        /\ calls[j].op = "reactions_add"
                        /\ calls[j].channel = calls[i].channel
                        /\ calls[j].ts = calls[i].ts
                        /\ calls[j].text = calls[i].text
                  /\ \E k \in 1..(i - 1) :
                        /\ calls[k].op = "chat_postMessage"
                        /\ calls[k].outcome = "ok"

----------------------------------------------------------------------------
\* C9: when chat raises while a threaded message event is handled, the
\* exception leaves handle_messages: chat was called once, nothing is posted
\* and no reaction is removed for that event.
C9_ChatFailureSilence ==
    (MessagesCycle /\ chatError # "") =>
        /\ pc \in {"chat_raised", "idle"}
        /\ (pc = "idle") => (httpResponse.status = 500)
        /\ Count("llm_post") = 1
        /\ Count("chat_postMessage") = 0
        /\ Count("reactions_remove") = 0

C9_Witness ==
    /\ MessagesCycle
    /\ chatError \in Errors
    /\ frames # <<>>
    /\ pc = "idle"
    /\ httpResponse.status = 500

----------------------------------------------------------------------------
\* C10: in the interactive session, after a completed round every element
\* of the history is a chat message with a role in {system, user, assistant}
\* and the round added a "user" message and then the reply as an
\* "assistant" message; empty input ends the loop without a chat call.
C10_SessionHistory ==
    (program = "llmInteract") =>
        /\ ( /\ pc = "main_input"
             /\ rounds > 0
             /\ frames # <<>>
             /\ frames[Len(frames)].done )
           => /\ \A i \in 1..Len(messages) : IsChatMessage(messages[i])
              /\ messages[Len(messages)].role = "assistant"
              /\ messages[Len(messages) - 1].role = "user"
        /\ (pc = "main_exit") => (Count("llm_post") = 0)

====
